---- MODULE Spec2Model ----
(***************************************************************************)
(* Model of the TikTok creator-analysis backend:                           *)
(*   - app/scrapers/tiktok_scraper.py : one scrape attempt                 *)
(*     (_scrape_tiktok_user_sync), the response listener, the embedded     *)
(*     JSON extractor, the item mapper, the DOM fallback, parse_count;     *)
(*   - app/api/routes.py : add_creator, scrape_creator, delete_creator,    *)
(*     _upsert_videos, _generate_demo_videos over the SQLAlchemy store of   *)
(*     app/models/database.py (default SQLite engine, autoflush off).      *)
(*                                                                         *)
(* Python dicts are records whose DOMAIN is the set of keys present;       *)
(* lists are sequences; None is the record NoneValue.                      *)
(***************************************************************************)
EXTENDS Integers, Sequences, FiniteSets, TLC

VARIABLES
    \* ---- one scrape attempt (_scrape_tiktok_user_sync) ----
    pc,            \* the statement the attempt is about to execute
    browser,       \* "none" | "open" | "closed": the launched Chromium
    video_limit,   \* the video_limit argument
    api_videos,    \* list filled by handle_response
    profile,       \* local `profile` (Unassigned until line 99 completes)
    json_videos,   \* local `json_videos`
    dom_videos,    \* local `dom_videos`
    videos,        \* local `videos`
    scrolls,       \* scroll cycles performed by the loop of lines 107-109
    rescrolls,     \* scroll cycles performed by the loop of lines 118-120
    clicks,        \* clicks on the Refresh button
    responses,     \* number of responses delivered to handle_response
    caught,        \* the step whose exception the except clause caught ("" if none)
    failure,       \* the exception propagating out of the function ("" if none)
    result,        \* the returned dict (Unassigned until line 157)
    username,      \* the username argument after lstrip("@")
    \* ---- the store and the request handlers (routes.py) ----
    creators,      \* committed rows of table creators
    video_rows,    \* committed rows of table videos
    reqs,          \* per request slot: the handler in progress and its locals
    started,       \* number of requests started so far
    demo_seq,      \* number of demo records generated so far
    ev,            \* what the handler step that ran last did (history)
    \* ---- repeated calls of _upsert_videos ----
    u_batch,       \* the batch passed to every call
    u_creator,     \* the creator_id passed to every call
    u_results,     \* what each call so far returned and left in the table
    \* ---- one call of a function that reads no state ----
    call,          \* the call: [fn, arg]
    ret            \* what the call returned (Unassigned until it returns)

scrapeVars == <<pc, browser, video_limit, username, api_videos, profile, json_videos,
                dom_videos, videos, scrolls, rescrolls, clicks, responses,
                caught, failure, result>>

routeVars == <<creators, video_rows, reqs, started, demo_seq, ev>>

upsertVars == <<u_batch, u_creator, u_results>>

callVars == <<call, ret>>

vars == <<scrapeVars, routeVars, upsertVars, callVars>>

\* ------------------------------------------------------------------ bounds
MaxLimit == 4
MaxResponses == 2
MaxCandidates == 3

\* --------------------------------------------------------- Python helpers
NoneValue == [py_none |-> TRUE]
Unassigned == [py_unassigned |-> TRUE]
EmptyDict == [k \in {} |-> 0]
NotADict == [py_type |-> "str"]

IsNone(x) == "py_none" \in DOMAIN x
IsDict(x) == "py_none" \notin DOMAIN x /\ "py_type" \notin DOMAIN x

\* dict.get(key, default)
Get(d, key, default) == IF key \in DOMAIN d THEN d[key] ELSE default

Min(a, b) == IF a < b THEN a ELSE b

\* list[:n] for n >= 0
Take(s, n) == SubSeq(s, 1, Min(n, Len(s)))

Range(s) == {s[i] : i \in DOMAIN s}

\* ------------------------------------------------------------ parse_count
\* Strings that parse_count reads are sequences of one-character strings.
Digits == <<"0", "1", "2", "3", "4", "5", "6", "7", "8", "9">>
IsDigit(c) == \E i \in 1..10 : Digits[i] = c
DigitVal(c) == (CHOOSE i \in 1..10 : Digits[i] = c) - 1
IsSpace(c) == c = " "

\* str.upper() on one character (the letters the model's texts use)
UpperChar(c) ==
    CASE c = "k" -> "K"
      [] c = "m" -> "M"
      [] c = "b" -> "B"
      [] c = "i" -> "I"
      [] c = "n" -> "N"
      [] c = "f" -> "F"
      [] c = "a" -> "A"
      [] c = "x" -> "X"
      [] c = "g" -> "G"
      [] c = "r" -> "R"
      [] c = "e" -> "E"
      [] OTHER -> c

Upper(t) == [i \in DOMAIN t |-> UpperChar(t[i])]

RECURSIVE LStrip(_)
LStrip(t) == IF t # <<>> /\ IsSpace(Head(t)) THEN LStrip(Tail(t)) ELSE t

RECURSIVE RStrip(_)
RStrip(t) ==
    IF t # <<>> /\ IsSpace(t[Len(t)]) THEN RStrip(SubSeq(t, 1, Len(t) - 1)) ELSE t

\* str.strip()
Strip(t) == RStrip(LStrip(t))

RECURSIVE LStripAt(_)
\* str.lstrip("@")
LStripAt(t) == IF t # <<>> /\ Head(t) = "@" THEN LStripAt(Tail(t)) ELSE t

RECURSIVE RemoveCommas(_)
\* str.replace(",", "")
RemoveCommas(t) ==
    IF t = <<>> THEN <<>>
    ELSE IF Head(t) = "," THEN RemoveCommas(Tail(t))
         ELSE <<Head(t)>> \o RemoveCommas(Tail(t))

RECURSIVE DigitsValue(_)
DigitsValue(t) ==
    IF t = <<>> THEN 0 ELSE DigitsValue(SubSeq(t, 1, Len(t) - 1)) * 10 + DigitVal(t[Len(t)])

RECURSIVE Pow10(_)
Pow10(n) == IF n = 0 THEN 1 ELSE 10 * Pow10(n - 1)

AllDigits(t) == \A i \in DOMAIN t : IsDigit(t[i])

\* Position of the first "." in t, or 0
DotAt(t) == IF \E i \in DOMAIN t : t[i] = "."
            THEN CHOOSE i \in DOMAIN t : t[i] = "." /\ \A j \in 1..(i - 1) : t[j] # "."
            ELSE 0

\* float(text) for an unsigned body: digits, digits "." digits*, "." digits+,
\* INF, INFINITY, NAN.  kind "error" is ValueError.  A finite value is num/den.
FloatBody(t) ==
    LET d == DotAt(t)
        ip == IF d = 0 THEN t ELSE SubSeq(t, 1, d - 1)
        fp == IF d = 0 THEN <<>> ELSE SubSeq(t, d + 1, Len(t))
    IN  IF t = <<"I", "N", "F">> \/ t = <<"I", "N", "F", "I", "N", "I", "T", "Y">>
        THEN [kind |-> "inf", num |-> 0, den |-> 1]
        ELSE IF t = <<"N", "A", "N">>
        THEN [kind |-> "nan", num |-> 0, den |-> 1]
        ELSE IF AllDigits(ip) /\ AllDigits(fp) /\ Len(ip) + Len(fp) > 0
        THEN [kind |-> "num", num |-> DigitsValue(ip \o fp), den |-> Pow10(Len(fp))]
        ELSE [kind |-> "error", num |-> 0, den |-> 1]

\* float(text): surrounding whitespace is ignored, one optional sign
Float(text) ==
    LET t == Upper(Strip(text))
        signed == t # <<>> /\ Head(t) \in {"-", "+"}
        body == FloatBody(IF signed THEN Tail(t) ELSE t)
    IN  IF signed /\ Head(t) = "-" THEN [body EXCEPT !.num = 0 - body.num] ELSE body

\* ---- binary64 arithmetic (Python's float).  A positive float is
\* [bits, exp]: a significand of MantissaBits bits (a sequence of 0 and 1,
\* most significant first, leading 1) times 2^exp.
MantissaBits == 53
RECURSIVE Bits(_)
\* the binary expansion of a natural number
Bits(n) == IF n = 0 THEN <<>> ELSE Append(Bits(n \div 2), n % 2)

Zeros(n) == [i \in 1..n |-> 0]

RECURSIVE BitsValue(_, _)
\* the number a bit sequence denotes, on top of acc
BitsValue(b, acc) ==
    IF b # <<>> /\ acc >= 0 THEN BitsValue(Tail(b), 2 * acc + Head(b)) ELSE acc

RECURSIVE StripZeros(_)
StripZeros(b) == IF b # <<>> /\ Head(b) = 0 THEN StripZeros(Tail(b)) ELSE b

RECURSIVE DivBits(_, _, _, _)
\* long division of a bit sequence by d: quotient bits q and remainder r
DivBits(b, d, q, r) ==
    IF b # <<>> /\ Len(q) >= 0 /\ r >= 0
    THEN LET t == 2 * r + Head(b)
         IN  DivBits(Tail(b), d, Append(q, t \div d), t % d)
    ELSE [q |-> q, r |-> r]

RECURSIVE MulBits(_, _, _, _)
\* the exact product of a bit sequence and c, from the least significant bit
MulBits(b, c, carry, out) ==
    IF b # <<>> /\ carry >= 0 /\ Len(out) >= 0
    THEN LET t == carry + b[Len(b)] * c
         IN  MulBits(SubSeq(b, 1, Len(b) - 1), c, t \div 2, <<t % 2>> \o out)
    ELSE Bits(carry) \o out

\* b + 1
IncBits(b) ==
    IF \A i \in DOMAIN b : b[i] = 1 THEN <<1>> \o Zeros(Len(b))
    ELSE LET k == CHOOSE i \in DOMAIN b : b[i] = 0 /\ \A j \in (i + 1)..Len(b) : b[j] = 1
         IN  [i \in DOMAIN b |-> IF i < k THEN b[i] ELSE IF i = k THEN 1 ELSE 0]

\* round to nearest, ties to even: b (leading 1) with a non-zero part below
\* its last bit iff sticky; the result is bits times 2^shift
RoundBits(b, sticky) ==
    IF Len(b) <= MantissaBits THEN [bits |-> b, shift |-> 0]
    ELSE LET keep == SubSeq(b, 1, MantissaBits)
             below == sticky \/ \E i \in (MantissaBits + 2)..Len(b) : b[i] = 1
             up == b[MantissaBits + 1] = 1 /\ (below \/ b[MantissaBits] = 1)
             Result(r, dropped) ==
                 IF Len(r) > MantissaBits
                 THEN [bits |-> SubSeq(r, 1, MantissaBits), shift |-> dropped + 1]
                 ELSE [bits |-> r, shift |-> dropped]
         IN  Result(IF up THEN IncBits(keep) ELSE keep, Len(b) - MantissaBits)

\* float("<num/den>") for num > 0: the nearest binary64.  The numerator is
\* followed by guard zero bits before the division, so that the quotient has
\* more bits than a significand (den < 2^27).
Double(num, den) ==
    LET guard == MantissaBits + 27
        Result(r) == [bits |-> r.bits, exp |-> r.shift - guard]
        Rounded(d) == Result(RoundBits(StripZeros(d.q), d.r # 0))
    IN  Rounded(DivBits(Bits(num) \o Zeros(guard), den, <<>>, 0))

\* int(float("<num/den>") * multiplier) for num > 0: the product is rounded
\* to a binary64, then truncated
TruncScaled(num, den, multiplier) ==
    LET Trunc(bits, exp) ==
            IF exp >= 0 THEN BitsValue(bits \o Zeros(exp), 0)
            ELSE IF Len(bits) + exp <= 0 THEN 0
            ELSE BitsValue(SubSeq(bits, 1, Len(bits) + exp), 0)
        Product(p, exp) == Trunc(p.bits, exp + p.shift)
        Scaled(x) == Product(RoundBits(MulBits(x.bits, multiplier, 0, <<>>), FALSE), x.exp)
    IN  Scaled(Double(num, den))

\* int(f * multiplier): truncation toward zero; ValueError for nan (and for
\* a text float() rejects) is caught by the caller, OverflowError for inf is not.
IntOfScaled(f, multiplier) ==
    CASE f.kind = "error" -> [exc |-> "", value |-> 0]
      [] f.kind = "nan" -> [exc |-> "", value |-> 0]
      [] f.kind = "inf" -> [exc |-> "OverflowError", value |-> 0]
      [] OTHER ->
            [exc |-> "",
             value |-> IF f.num = 0 THEN 0
                       ELSE IF f.num > 0 THEN TruncScaled(f.num, f.den, multiplier)
                       ELSE 0 - TruncScaled(0 - f.num, f.den, multiplier)]

Multiplier(suffix) ==
    CASE suffix = "K" -> 1000
      [] suffix = "M" -> 1000000
      [] suffix = "B" -> 1000000000

parse_count(text) ==
    IF text = <<>> THEN [exc |-> "", value |-> 0]
    ELSE LET t == RemoveCommas(Upper(Strip(text)))
         IN  IF t # <<>> /\ t[Len(t)] \in {"K", "M", "B"}
             THEN IntOfScaled(Float(SubSeq(t, 1, Len(t) - 1)), Multiplier(t[Len(t)]))
             ELSE IntOfScaled(Float(t), 1)


\* ------------------------------------------------------- item mapper
RECURSIVE HashtagNames(_)
\* [t.get("hashtagName", "") for t in textExtra if t.get("hashtagName")]
HashtagNames(tags) ==
    IF tags = <<>> THEN <<>>
    ELSE IF Get(Head(tags), "hashtagName", "") # ""
         THEN <<Get(Head(tags), "hashtagName", "")>> \o HashtagNames(Tail(tags))
         ELSE HashtagNames(Tail(tags))

RECURSIVE Join(_)
\* ",".join(names), kept as the sequence of its pieces
Join(names) ==
    IF Len(names) <= 1 THEN names
    ELSE <<Head(names), ",">> \o Join(Tail(names))

VideoUrl(uname, video_id) == <<"https://www.tiktok.com/@", uname, "/video/", video_id>>

\* a mapper that prefers likeCount
LikesOf_likeFirst(stats) == Get(stats, "likeCount", Get(stats, "diggCount", 0))

\* line 240: stats.get("diggCount", stats.get("likeCount", 0))
LikesOf(stats) == Get(stats, "diggCount", Get(stats, "likeCount", 0))

\* _parse_api_video(item, username): None when the id is missing or empty,
\* and None when any access raises (item or its "stats" not a dict)
_parse_api_video(item, uname) ==
    IF ~IsDict(item) THEN NoneValue
    ELSE LET video_id == Get(item, "id", Get(item, "video_id", ""))
             stats == Get(item, "stats", EmptyDict)
         IN  IF video_id = "" THEN NoneValue
             ELSE IF ~IsDict(stats) \/ ~IsDict(Get(item, "video", EmptyDict)) THEN NoneValue
             ELSE [username |-> uname,
                   url |-> VideoUrl(uname, video_id),
                   video_id |-> video_id,
                   caption |-> Get(item, "desc", ""),
                   views |-> Get(stats, "playCount", 0),
                   likes |-> LikesOf(stats),
                   comments |-> Get(stats, "commentCount", 0),
                   shares |-> Get(stats, "shareCount", 0),
                   duration |-> Get(Get(item, "video", EmptyDict), "duration", 0),
                   hashtags |-> Join(HashtagNames(Get(item, "textExtra", <<>>)))]

\* ------------------------------------------- embedded-state extractor
\* A dict the code iterates over is the sequence of its (key, val) entries in
\* insertion order; ScopeGet is its .get(key, default).
ScopeGet(scope, key, default) ==
    IF \E i \in DOMAIN scope : scope[i].key = key
    THEN scope[CHOOSE i \in DOMAIN scope : scope[i].key = key].val
    ELSE default

RECURSIVE ItemsToVideos(_, _)
\* for item in subval: v = _parse_api_video(item, username); if v: videos.append(v)
ItemsToVideos(items, uname) ==
    IF items = <<>> THEN <<>>
    ELSE LET v == _parse_api_video(Head(items), uname)
         IN  (IF IsNone(v) THEN <<>> ELSE <<v>>) \o ItemsToVideos(Tail(items), uname)

RECURSIVE ScopeVideos(_, _)
\* the loop of lines 208-217 over default_scope
ScopeVideos(scope, uname) ==
    IF scope = <<>> THEN <<>>
    ELSE LET scope_val == Head(scope).val
             here == IF IsDict(scope_val) /\ "itemList" \in DOMAIN scope_val
                     THEN ItemsToVideos(scope_val.itemList, uname)
                     ELSE <<>>
         IN  here \o ScopeVideos(Tail(scope), uname)

DefaultProfile(uname) ==
    [username |-> uname, followers |-> 0, following |-> 0, likes |-> 0, video_count |-> 0]

\* _extract_from_embedded_json(html, username).  html.marker: the script tag
\* is found; html.text is the payload: Malformed (json.loads raises
\* JSONDecodeError), or [value |-> data].  data that is not a dict makes
\* data.get raise AttributeError, which the except clause of line 219 does
\* not name: it leaves the function (exc # "").
_extract_from_embedded_json(html, uname) ==
    IF ~html.marker
    THEN [exc |-> "", profile |-> DefaultProfile(uname), videos |-> <<>>]
    ELSE IF "malformed" \in DOMAIN html.text
    THEN [exc |-> "", profile |-> DefaultProfile(uname), videos |-> <<>>]
    ELSE LET data == html.text.value
         IN  IF ~IsDict(data)
             THEN [exc |-> "AttributeError", profile |-> DefaultProfile(uname), videos |-> <<>>]
             ELSE LET default_scope == Get(data, "__DEFAULT_SCOPE__", <<>>)
                      user_detail == ScopeGet(default_scope, "webapp.user-detail", EmptyDict)
                      user_info == Get(user_detail, "userInfo", EmptyDict)
                      user == Get(user_info, "user", EmptyDict)
                      stats == Get(user_info, "stats", EmptyDict)
                  IN  [exc |-> "",
                       profile |-> [username |-> Get(user, "uniqueId", uname),
                                    nickname |-> Get(user, "nickname", ""),
                                    bio |-> Get(user, "signature", ""),
                                    followers |-> Get(stats, "followerCount", 0),
                                    following |-> Get(stats, "followingCount", 0),
                                    likes |-> Get(stats, "heartCount", 0),
                                    video_count |-> Get(stats, "videoCount", 0)],
                       videos |-> ScopeVideos(default_scope, uname)]

\* ------------------------------------------------ DOM fallback extractor
\* An element: href (NoneValue, or [abs, vid] where vid is the digits matched
\* by /video/(\d+), "" when the path has none), child (the descendant <a>,
\* NoneValue or [href]), views_el (NoneValue or [inner_text], the label).
ResolveHref(item) ==
    IF ~IsNone(item.href) THEN item.href
    ELSE IF ~IsNone(item.child) THEN item.child.href
    ELSE NoneValue

DomUrl(href) ==
    IF href.abs THEN <<"http", "/video/", href.vid>>
    ELSE <<"https://www.tiktok.com", "/video/", href.vid>>

RECURSIVE DomLoop(_, _, _, _)
\* the loop of lines 265-296; an exception (parse_count's OverflowError)
\* ends it and the except clause of line 298 keeps what was collected
DomLoop(items, uname, seen_ids, acc) ==
    IF items = <<>> THEN acc
    ELSE LET item == Head(items)
             href == ResolveHref(item)
         IN  IF IsNone(href) THEN DomLoop(Tail(items), uname, seen_ids, acc)
             ELSE IF href.vid = "" \/ href.vid \in seen_ids
             THEN DomLoop(Tail(items), uname, seen_ids, acc)
             ELSE LET parsed == IF IsNone(item.views_el) THEN [exc |-> "", value |-> 0]
                                ELSE parse_count(item.views_el.inner_text)
                  IN  IF parsed.exc # "" THEN acc
                      ELSE DomLoop(Tail(items), uname, seen_ids \cup {href.vid},
                                   Append(acc, [username |-> uname,
                                                url |-> DomUrl(href),
                                                video_id |-> href.vid,
                                                caption |-> "",
                                                views |-> parsed.value,
                                                likes |-> 0,
                                                comments |-> 0,
                                                shares |-> 0]))

\* an extractor that walks every candidate and cuts the records to the limit
_extract_videos_from_dom_late(dom, uname, limit) ==
    IF dom.raises THEN <<>>
    ELSE LET items == IF dom.post_items # <<>> THEN dom.post_items ELSE dom.video_links
         IN  Take(DomLoop(items, uname, {}, <<>>), limit)

\* _extract_videos_from_dom(page, username, limit).  dom.raises: a selector
\* query raises (caught on line 298, nothing collected yet).
_extract_videos_from_dom(dom, uname, limit) ==
    IF dom.raises THEN <<>>
    ELSE LET items == IF dom.post_items # <<>> THEN dom.post_items ELSE dom.video_links
         IN  DomLoop(Take(items, limit), uname, {}, <<>>)


\* ------------------------------------------------- what the platform serves
\* line 61: username = username.lstrip("@"), for the arguments "@a" and "@"
ScrapeUsernames == {LStripAt(<<"@", "a">>), LStripAt(<<"@">>)}
\* scrape_tiktok_user(username): video_limit takes its default
DefaultVideoLimit == 30

\* the requested limits: the small ones, the two limits around the point
\* where the first scroll loop gets longer than the second (17 // 3 = 5,
\* 18 // 3 = 6), the default, and one beyond the cap (33 // 3 = 11)
Limits == (0..MaxLimit) \cup {17, 18, DefaultVideoLimit, 33}

ItemFull == [id |-> "7001", desc |-> "cap", stats |-> [playCount |-> 7, diggCount |-> 3],
             textExtra |-> <<[hashtagName |-> "fyp"]>>]
ItemLikeOnly == [id |-> "7002", stats |-> [playCount |-> 0, likeCount |-> 1]]
ItemZero == [id |-> "7001", stats |-> [playCount |-> 0, diggCount |-> 0]]
ItemNegative == [id |-> "7003", stats |-> [playCount |-> 0 - 5]]
ItemNoId == [desc |-> "cap"]

\* A network response: url_kind, decodable (response.json() succeeds), data
Responses ==
    { [url_kind |-> "item_list", decodable |-> TRUE, data |-> [itemList |-> <<ItemFull, ItemLikeOnly>>]],
      [url_kind |-> "item_list", decodable |-> TRUE, data |-> [items |-> <<ItemZero>>]],
      [url_kind |-> "comment_list", decodable |-> TRUE, data |-> [itemList |-> <<ItemNoId>>]],
      [url_kind |-> "item_list", decodable |-> TRUE, data |-> [itemList |-> <<ItemNegative, NotADict>>]],
      [url_kind |-> "item_list", decodable |-> TRUE, data |-> NotADict],
      [url_kind |-> "item_list", decodable |-> FALSE, data |-> EmptyDict],
      [url_kind |-> "other", decodable |-> TRUE, data |-> [itemList |-> <<ItemFull>>]] }

Malformed == [malformed |-> TRUE]
ScopeWith(followerCount, items) ==
    [value |-> [__DEFAULT_SCOPE__ |->
        <<[key |-> "webapp.user-detail",
           val |-> [userInfo |-> [user |-> [uniqueId |-> <<"a">>],
                                  stats |-> [followerCount |-> followerCount]]]],
          [key |-> "webapp.video-list", val |-> [itemList |-> items]]>>]]

\* page.content(): the markup, as far as the embedded-state extractor reads it
Htmls ==
    { [marker |-> FALSE, text |-> Malformed],
      [marker |-> TRUE, text |-> Malformed],
      [marker |-> TRUE, text |-> [value |-> NotADict]],
      [marker |-> TRUE, text |-> ScopeWith(5000, <<>>)],
      [marker |-> TRUE, text |-> ScopeWith(0, <<ItemZero, ItemNoId>>)],
      [marker |-> TRUE, text |-> ScopeWith(1000, <<ItemLikeOnly, ItemFull>>)] }

Elem(href, child, views_el) == [href |-> href, child |-> child, views_el |-> views_el]
Href(abs, vid) == [abs |-> abs, vid |-> vid]

\* the rendered DOM, as far as the fallback extractor reads it
DomPages ==
    { [raises |-> TRUE, post_items |-> <<>>, video_links |-> <<>>],
      [raises |-> FALSE, post_items |-> <<>>, video_links |-> <<>>],
      [raises |-> FALSE,
       post_items |-> <<Elem(NoneValue, [href |-> Href(FALSE, "7001")], [inner_text |-> <<"1", ".", "2", "K">>]),
                        Elem(Href(TRUE, "7001"), NoneValue, [inner_text |-> <<"9">>]),
                        Elem(Href(FALSE, "7002"), NoneValue, [inner_text |-> <<"0">>])>>,
       video_links |-> <<>>],
      [raises |-> FALSE, post_items |-> <<>>,
       video_links |-> <<Elem(Href(FALSE, "7004"), NoneValue, [inner_text |-> <<"-", "5">>]),
                         Elem(Href(FALSE, ""), NoneValue, NoneValue),
                         Elem(NoneValue, NoneValue, NoneValue)>>],
      [raises |-> FALSE, post_items |-> <<>>,
       video_links |-> <<Elem(Href(FALSE, "7005"), NoneValue, NoneValue),
                         Elem(Href(FALSE, "7006"), NoneValue, [inner_text |-> <<"i", "n", "f">>]),
                         Elem(Href(FALSE, "7007"), NoneValue, [inner_text |-> <<"3">>])>>] }

\* --------------------------------------------------- the scrape attempt
RECURSIVE MapItems(_, _)
\* for item in items: api_videos.append(_parse_api_video(item, username))
MapItems(items, uname) ==
    IF items = <<>> THEN <<>>
    ELSE <<_parse_api_video(Head(items), uname)>> \o MapItems(Tail(items), uname)

\* handle_response(response): the new api_videos
handle_response(response, acc, uname) ==
    IF response.url_kind \notin {"item_list", "comment_list"} THEN acc
    ELSE IF ~response.decodable \/ ~IsDict(response.data) THEN acc
    ELSE acc \o MapItems(Get(response.data, "itemList", Get(response.data, "items", <<>>)), uname)

\* a merge that tops up a partial higher-priority result from the lower ones
MergeVideos_blend(api, json, dom, limit) == Take(api \o json \o dom, limit)

\* lines 126-136: prefer API data > JSON data > DOM data
MergeVideos(api, json, dom, limit) ==
    IF api # <<>> THEN Take(api, limit)
    ELSE IF json # <<>> THEN Take(json, limit)
    ELSE IF dom # <<>> THEN Take(dom, limit)
    ELSE <<>>

\* range(min(10, video_limit // 3)) and range(5)
ScrollCap == 10
ScrollDivisor == 3
RescrollCount == 5
\* a first scroll loop that rounds the quotient up
ScrollCount_ceiling(limit) == Min(ScrollCap, (limit + ScrollDivisor - 1) \div ScrollDivisor)

ScrollCount(limit) == Min(ScrollCap, limit \div ScrollDivisor)

\* statements of the try block that call into the page and so may raise
TrySteps == {"goto", "content", "screenshot", "scroll", "query_refresh",
             "click_refresh", "rescroll", "extract_dom"}
\* Playwright calls during which the sync API dispatches response events
DispatchSteps == TrySteps \cup {"finally"}
\* set-up statements between launch and the try block (lines 68-91)
SetupSteps == {"new_context", "new_page", "page_on"}

\* no function is called on its own
CallsIdle == call = [fn |-> "none", arg |-> <<>>] /\ ret = Unassigned

\* the request handlers are not part of a single attempt
RoutesIdle ==
    /\ creators = {}
    /\ video_rows = {}
    /\ reqs = <<>>
    /\ started = 0
    /\ demo_seq = 0
    /\ ev = [handler |-> "none"]
    /\ u_batch = <<>>
    /\ u_creator = 0
    /\ u_results = <<>>

ScrapeInit ==
    /\ pc = "with_enter"
    /\ browser = "none"
    /\ video_limit \in Limits
    /\ username \in ScrapeUsernames
    /\ api_videos = <<>>
    /\ profile = Unassigned
    /\ json_videos = <<>>
    /\ dom_videos = <<>>
    /\ videos = <<>>
    /\ scrolls = 0
    /\ rescrolls = 0
    /\ clicks = 0
    /\ responses = 0
    /\ caught = ""
    /\ failure = ""
    /\ result = Unassigned
    /\ RoutesIdle
    /\ CallsIdle

\* line 66: with sync_playwright() as p
EnterPlaywright ==
    /\ pc = "with_enter"
    /\ pc' = "launch"
    /\ UNCHANGED <<routeVars, upsertVars, callVars>>
    /\ UNCHANGED <<browser, video_limit, username, api_videos, profile, json_videos,
                   dom_videos, videos, scrolls, rescrolls, clicks, responses,
                   caught, failure, result>>

\* line 67: browser = p.chromium.launch(headless=True)
Launch ==
    /\ pc = "launch"
    /\ \/ browser' = "open" /\ pc' = "new_context" /\ failure' = failure
       \/ browser' = browser /\ pc' = "with_exit" /\ failure' = "launch"
    /\ UNCHANGED <<routeVars, upsertVars, callVars>>
    /\ UNCHANGED <<video_limit, username, api_videos, profile, json_videos,
                   dom_videos, videos, scrolls, rescrolls, clicks, responses,
                   caught, result>>

NextSetup(step) ==
    CASE step = "new_context" -> "new_page"
      [] step = "new_page" -> "page_on"
      [] step = "page_on" -> "goto"

\* lines 68-91: new_context, new_page, page.on; none is inside the try block,
\* so a failure leaves through the with statement only
Setup ==
    /\ pc \in SetupSteps
    /\ \/ pc' = NextSetup(pc) /\ failure' = failure
       \/ pc' = "with_exit" /\ failure' = pc
    /\ UNCHANGED <<routeVars, upsertVars, callVars>>
    /\ UNCHANGED <<browser, video_limit, username, api_videos, profile, json_videos,
                   dom_videos, videos, scrolls, rescrolls, clicks, responses,
                   caught, result>>

\* the listener registered on line 91 runs while a Playwright call is in progress
HandleResponse ==
    /\ pc \in DispatchSteps
    /\ browser = "open"
    /\ responses < MaxResponses
    /\ \E response \in Responses :
          api_videos' = handle_response(response, api_videos, username)
    /\ responses' = responses + 1
    /\ UNCHANGED <<routeVars, upsertVars, callVars>>
    /\ UNCHANGED <<pc, browser, video_limit, username, profile, json_videos,
                   dom_videos, videos, scrolls, rescrolls, clicks, caught, failure,
                   result>>

\* any page call of the try block raises: except Exception on line 138
StepRaises ==
    /\ pc \in TrySteps
    /\ caught' = pc
    /\ pc' = "finally"
    /\ UNCHANGED <<routeVars, upsertVars, callVars>>
    /\ UNCHANGED <<browser, video_limit, username, api_videos, profile, json_videos,
                   dom_videos, videos, scrolls, rescrolls, clicks, responses,
                   failure, result>>

\* line 94: page.goto(...) returns
Goto ==
    /\ pc = "goto"
    /\ pc' = "settle"
    /\ UNCHANGED <<routeVars, upsertVars, callVars>>
    /\ UNCHANGED <<browser, video_limit, username, api_videos, profile, json_videos,
                   dom_videos, videos, scrolls, rescrolls, clicks, responses,
                   caught, failure, result>>

\* line 95: time.sleep(5)
Settle ==
    /\ pc = "settle"
    /\ pc' = "content"
    /\ UNCHANGED <<routeVars, upsertVars, callVars>>
    /\ UNCHANGED <<browser, video_limit, username, api_videos, profile, json_videos,
                   dom_videos, videos, scrolls, rescrolls, clicks, responses,
                   caught, failure, result>>

\* lines 98-99: html = page.content(); profile, json_videos = _extract_from_embedded_json(...)
ExtractEmbedded ==
    /\ pc = "content"
    /\ \E html \in Htmls :
          LET r == _extract_from_embedded_json(html, username)
          IN  IF r.exc # ""
              THEN /\ caught' = "extract_json"
                   /\ pc' = "finally"
                   /\ UNCHANGED <<profile, json_videos>>
              ELSE /\ profile' = r.profile
                   /\ json_videos' = r.videos
                   /\ pc' = "screenshot"
                   /\ caught' = caught
    /\ UNCHANGED <<routeVars, upsertVars, callVars>>
    /\ UNCHANGED <<browser, video_limit, username, api_videos, dom_videos, videos,
                   scrolls, rescrolls, clicks, responses, failure, result>>

\* lines 102-104: debug_dir.mkdir, page.screenshot
Screenshot ==
    /\ pc = "screenshot"
    /\ pc' = "scroll"
    /\ UNCHANGED <<routeVars, upsertVars, callVars>>
    /\ UNCHANGED <<browser, video_limit, username, api_videos, profile, json_videos,
                   dom_videos, videos, scrolls, rescrolls, clicks, responses,
                   caught, failure, result>>

\* lines 107-109: one scroll cycle, or the loop ends
Scroll ==
    /\ pc = "scroll"
    /\ IF scrolls < ScrollCount(video_limit)
       THEN scrolls' = scrolls + 1 /\ pc' = pc
       ELSE scrolls' = scrolls /\ pc' = "query_refresh"
    /\ UNCHANGED <<routeVars, upsertVars, callVars>>
    /\ UNCHANGED <<browser, video_limit, username, api_videos, profile, json_videos,
                   dom_videos, videos, rescrolls, clicks, responses, caught, failure,
                   result>>

\* a retry that scrolls again whether or not the button is there
AfterRefreshQuery_rescroll(refresh_btn) == IF refresh_btn THEN "click_refresh" ELSE "rescroll"

\* lines 113-123: if refresh_btn: click, sleep, scroll again; then the DOM fallback
AfterRefreshQuery(refresh_btn) == IF refresh_btn THEN "click_refresh" ELSE "extract_dom"

\* lines 112-113: refresh_btn = page.query_selector(...); if refresh_btn
QueryRefresh ==
    /\ pc = "query_refresh"
    /\ \E refresh_btn \in BOOLEAN :
          pc' = AfterRefreshQuery(refresh_btn)
    /\ UNCHANGED <<routeVars, upsertVars, callVars>>
    /\ UNCHANGED <<browser, video_limit, username, api_videos, profile, json_videos,
                   dom_videos, videos, scrolls, rescrolls, clicks, responses,
                   caught, failure, result>>

\* lines 115-116: refresh_btn.click(); time.sleep(5)
ClickRefresh ==
    /\ pc = "click_refresh"
    /\ clicks' = clicks + 1
    /\ pc' = "rescroll"
    /\ UNCHANGED <<routeVars, upsertVars, callVars>>
    /\ UNCHANGED <<browser, video_limit, username, api_videos, profile, json_videos,
                   dom_videos, videos, scrolls, rescrolls, responses, caught, failure,
                   result>>

\* lines 118-120: one scroll cycle after the refresh, or the loop ends
Rescroll ==
    /\ pc = "rescroll"
    /\ IF rescrolls < RescrollCount
       THEN rescrolls' = rescrolls + 1 /\ pc' = pc
       ELSE rescrolls' = rescrolls /\ pc' = "extract_dom"
    /\ UNCHANGED <<routeVars, upsertVars, callVars>>
    /\ UNCHANGED <<browser, video_limit, username, api_videos, profile, json_videos,
                   dom_videos, videos, scrolls, clicks, responses, caught, failure,
                   result>>

\* line 123: dom_videos = _extract_videos_from_dom(page, username, video_limit)
ExtractDom ==
    /\ pc = "extract_dom"
    /\ \E dom \in DomPages :
          dom_videos' = _extract_videos_from_dom(dom, username, video_limit)
    /\ pc' = "merge"
    /\ UNCHANGED <<routeVars, upsertVars, callVars>>
    /\ UNCHANGED <<browser, video_limit, username, api_videos, profile, json_videos,
                   videos, scrolls, rescrolls, clicks, responses, caught, failure,
                   result>>

\* lines 126-136
Merge ==
    /\ pc = "merge"
    /\ videos' = MergeVideos(api_videos, json_videos, dom_videos, video_limit)
    /\ pc' = "finally"
    /\ UNCHANGED <<routeVars, upsertVars, callVars>>
    /\ UNCHANGED <<browser, video_limit, username, api_videos, profile, json_videos,
                   dom_videos, scrolls, rescrolls, clicks, responses, caught, failure,
                   result>>

\* lines 140-142: finally: time.sleep(5); browser.close()
Finally ==
    /\ pc = "finally"
    /\ browser' = "closed"
    /\ pc' = "with_exit"
    /\ UNCHANGED <<routeVars, upsertVars, callVars>>
    /\ UNCHANGED <<video_limit, username, api_videos, profile, json_videos,
                   dom_videos, videos, scrolls, rescrolls, clicks, responses,
                   caught, failure, result>>

\* leaving the with block without the driver being stopped
BrowserAfterStop_leak(b) == b

\* The browser after sync_playwright().__exit__: stopping the Playwright
\* driver ends every browser process the driver launched.
BrowserAfterStop(b) == IF b = "open" THEN "closed" ELSE b

\* line 66, leaving the with block (normally or with an exception in flight)
ExitPlaywright ==
    /\ pc = "with_exit"
    /\ browser' = BrowserAfterStop(browser)
    /\ pc' = IF failure # "" THEN "raised" ELSE "dump"
    /\ UNCHANGED <<routeVars, upsertVars, callVars>>
    /\ UNCHANGED <<video_limit, username, api_videos, profile, json_videos,
                   dom_videos, videos, scrolls, rescrolls, clicks, responses,
                   caught, failure, result>>

\* the profile local used without the test for its existence
OutputProfile_unchecked(p) == p

\* line 148: profile if 'profile' in dir() else {}
OutputProfile(p) == IF p = Unassigned THEN EmptyDict ELSE p

\* line 157
ReturnValue(p, v) == [profile |-> OutputProfile(p), videos |-> v]

\* lines 145-157: build output, write DATA_DIR/<username>.json, return;
\* the write is outside every try block
DumpAndReturn ==
    /\ pc = "dump"
    /\ \/ /\ result' = ReturnValue(profile, videos)
          /\ pc' = "returned"
          /\ failure' = failure
       \/ /\ failure' = "dump"
          /\ pc' = "raised"
          /\ result' = result
    /\ UNCHANGED <<routeVars, upsertVars, callVars>>
    /\ UNCHANGED <<browser, video_limit, username, api_videos, profile, json_videos,
                   dom_videos, videos, scrolls, rescrolls, clicks, responses, caught>>

ScrapeNext ==
    \/ EnterPlaywright
    \/ Launch
    \/ Setup
    \/ HandleResponse
    \/ StepRaises
    \/ Goto
    \/ Settle
    \/ ExtractEmbedded
    \/ Screenshot
    \/ Scroll
    \/ QueryRefresh
    \/ ClickRefresh
    \/ Rescroll
    \/ ExtractDom
    \/ Merge
    \/ Finally
    \/ ExitPlaywright
    \/ DumpAndReturn

SpecScrape == ScrapeInit /\ [][ScrapeNext]_vars

\* ------------------------------------------------------------ the store
\* database.py line 29: sessionmaker(autocommit=False, autoflush=False, ...):
\* a query does not flush, so it does not see objects pending in the session
autoflush == FALSE

HasCreator(cs, id) == \E c \in cs : c.id = id
HasUsername(cs, uname) == \E c \in cs : c.username = uname
CreatorByUsername(cs, uname) == CHOOSE c \in cs : c.username = uname

\* the INTEGER PRIMARY KEY the default SQLite engine gives a new row
NextCreatorId(cs) ==
    IF cs = {} THEN 1
    ELSE (CHOOSE m \in {c.id : c \in cs} : \A c \in cs : c.id <= m) + 1

\* Creator(username=...): follower_count takes the column default 0
NewCreator(cs, uname) == [id |-> NextCreatorId(cs), username |-> uname, follower_count |-> 0]

SetFollowers(cs, id, n) ==
    {IF c.id = id THEN [c EXCEPT !.follower_count = n] ELSE c : c \in cs}

\* datetime.isoformat() and datetime.fromisoformat(): a datetime is
\* [days_ago, hours_ago]; its ISO text is [iso |-> <<days_ago, "T", hours_ago>>]
isoformat(dt) == [iso |-> <<dt.days_ago, "T", dt.hours_ago>>]
fromisoformat(text) == [days_ago |-> text.iso[1], hours_ago |-> text.iso[3]]

\* lines 76-87: Video(creator_id=..., video_id=vid, caption=v.get("caption", ""), ...)
NewVideoRow(creator_id, vid, v) ==
    [creator_id |-> creator_id,
     video_id |-> vid,
     caption |-> Get(v, "caption", ""),
     views |-> Get(v, "views", 0),
     likes |-> Get(v, "likes", 0),
     comments |-> Get(v, "comments", 0),
     shares |-> Get(v, "shares", 0),
     posted_at |-> IF "posted_at" \in DOMAIN v THEN fromisoformat(v.posted_at) ELSE NoneValue,
     duration |-> Get(v, "duration", 0),
     hashtags |-> Get(v, "hashtags", <<>>)]

\* an update that refreshes the caption along with the metrics
UpdateMetrics_refresh(row, v) ==
    [row EXCEPT !.views = Get(v, "views", 0),
                !.likes = Get(v, "likes", 0),
                !.comments = Get(v, "comments", 0),
                !.shares = Get(v, "shares", 0),
                !.caption = Get(v, "caption", "")]

\* lines 71-74: the metric fields of the existing row are overwritten
UpdateMetrics(row, v) ==
    [row EXCEPT !.views = Get(v, "views", 0),
                !.likes = Get(v, "likes", 0),
                !.comments = Get(v, "comments", 0),
                !.shares = Get(v, "shares", 0)]

\* line 69: db.query(Video).filter(Video.video_id == vid).first() finds a row.
\* s.table is the table as the session sees it, s.pending the objects added
\* to the session and not yet flushed.
ExistingFound(s, vid) ==
    \/ \E r \in s.table : r.video_id = vid
    \/ autoflush /\ \E i \in DOMAIN s.pending : s.pending[i].video_id = vid

\* a loop body that counts only the rows it inserts
UpsertItem_countInserts(s, creator_id, v) ==
    LET vid == Get(v, "video_id", "")
    IN  IF vid = "" THEN s
        ELSE IF ExistingFound(s, vid)
        THEN [s EXCEPT !.table = {IF r.video_id = vid THEN UpdateMetrics(r, v) ELSE r : r \in s.table}]
        ELSE [s EXCEPT !.pending = Append(s.pending, NewVideoRow(creator_id, vid, v)),
                       !.count = s.count + 1]

\* lines 66-88: one iteration of the loop of _upsert_videos
UpsertItem(s, creator_id, v) ==
    LET vid == Get(v, "video_id", "")
    IN  IF vid = "" THEN s
        ELSE IF ExistingFound(s, vid)
        THEN [s EXCEPT !.table = {IF r.video_id = vid THEN UpdateMetrics(r, v) ELSE r : r \in s.table},
                       !.count = s.count + 1]
        ELSE [s EXCEPT !.pending = Append(s.pending, NewVideoRow(creator_id, vid, v)),
                       !.count = s.count + 1]

RECURSIVE UpsertLoop(_, _, _)
\* lines 65-88: for v in videos.  count is never negative: reading it makes
\* the session of one iteration a value before the next iteration starts.
UpsertLoop(s, creator_id, batch) ==
    IF batch = <<>> \/ s.count < 0 THEN s
    ELSE UpsertLoop(UpsertItem(s, creator_id, Head(batch)), creator_id, Tail(batch))

\* the UNIQUE index on videos.video_id (database.py line 58) at flush time
UniqueViolation(table, pending) ==
    \/ \E i, j \in DOMAIN pending : i # j /\ pending[i].video_id = pending[j].video_id
    \/ \E i \in DOMAIN pending : \E r \in table : r.video_id = pending[i].video_id

\* _upsert_videos(db, creator_id, videos) on the committed table: the loop,
\* then db.commit() on line 89; a failed commit rolls the session back
_upsert_videos(table, creator_id, batch) ==
    LET s == UpsertLoop([table |-> table, pending |-> <<>>, count |-> 0], creator_id, batch)
    IN  IF UniqueViolation(s.table, s.pending)
        THEN [exc |-> "IntegrityError", table |-> table, count |-> 0]
        ELSE [exc |-> "", table |-> s.table \cup Range(s.pending), count |-> s.count]

\* ------------------------------------------------- synthetic generator
\* random.randint(500_000, 50_000_000), random.uniform(0.5, 1.5) (percent) and
\* the engagement ratios of random.uniform (per mille); mult10 is the
\* multiplier of random.choice times 10.  The draws are end points of the ranges.
BaseViewsMin == 500000
BaseViewsMax == 50000000
JitterPctMin == 50
JitterPctMax == 150
LikePermilleMin == 50
LikePermilleMax == 200
CommentPermilleMin == 5
CommentPermilleMax == 30
SharePermilleMin == 2
SharePermilleMax == 15
DaysAgoMin == 1
DaysAgoMax == 90
HoursAgoMax == 23
DurationTenthsMin == 70
DurationTenthsMax == 1800

\* int(x * permille / 1000) without leaving 32-bit integers
Fraction(x, permille) == (x \div 1000) * permille + ((x % 1000) * permille) \div 1000

\* str(random.randint(7_000_000_000_000_000_000, 7_400_000_000_000_000_000)):
\* the n-th id drawn; two draws are taken to differ (the range holds 4e17 ids)
DemoId(n) == "7d" \o ToString(n)

\* a generator that takes the comment ratio for the likes and the like
\* ratio for the comments
DemoRecord_swapped(base_views, id, d) ==
    LET views == (base_views \div 1000) * d.mult10 * d.jitter_pct
    IN  [video_id |-> id,
         caption |-> d.caption,
         views |-> views,
         likes |-> Fraction(views, d.comment_permille),
         comments |-> Fraction(views, d.like_permille),
         shares |-> Fraction(views, d.share_permille),
         posted_at |-> isoformat([days_ago |-> d.days_ago, hours_ago |-> d.hours_ago]),
         duration |-> d.duration_tenths,
         hashtags |-> d.hashtags]

\* a generator whose jitter is drawn from 0 upwards
DemoRecord_fromZero(base_views, id, d) ==
    LET views == (base_views \div 1000) * d.mult10 * (d.jitter_pct - JitterPctMin)
    IN  [video_id |-> id,
         caption |-> d.caption,
         views |-> views,
         likes |-> Fraction(views, d.like_permille),
         comments |-> Fraction(views, d.comment_permille),
         shares |-> Fraction(views, d.share_permille),
         posted_at |-> isoformat([days_ago |-> d.days_ago, hours_ago |-> d.hours_ago]),
         duration |-> d.duration_tenths,
         hashtags |-> d.hashtags]

\* lines 44-56: one generated record; d holds the random draws
DemoRecord(base_views, id, d) ==
    LET views == (base_views \div 1000) * d.mult10 * d.jitter_pct
    IN  [video_id |-> id,
         caption |-> d.caption,
         views |-> views,
         likes |-> Fraction(views, d.like_permille),
         comments |-> Fraction(views, d.comment_permille),
         shares |-> Fraction(views, d.share_permille),
         posted_at |-> isoformat([days_ago |-> d.days_ago, hours_ago |-> d.hours_ago]),
         duration |-> d.duration_tenths,
         hashtags |-> d.hashtags]

\* _generate_demo_videos(count): rnd.base_views is the draw of line 41,
\* rnd.draws[i] the draws of the i-th iteration, seq the ids drawn before
_generate_demo_videos(count, rnd, seq) ==
    [i \in 1..count |-> DemoRecord(rnd.base_views, DemoId(seq + i), rnd.draws[i])]

\* the draws of one iteration that the handlers' runs explore
LowDraw ==
    [mult10 |-> 1, jitter_pct |-> JitterPctMin, like_permille |-> LikePermilleMin,
     comment_permille |-> CommentPermilleMax, share_permille |-> SharePermilleMin,
     days_ago |-> DaysAgoMin, hours_ago |-> 0, duration_tenths |-> DurationTenthsMin,
     caption |-> "Wait for it... #surprise #viral", hashtags |-> <<"fyp,foryou,viral">>]
HighDraw ==
    [mult10 |-> 100, jitter_pct |-> JitterPctMax, like_permille |-> LikePermilleMax,
     comment_permille |-> CommentPermilleMin, share_permille |-> SharePermilleMax,
     days_ago |-> DaysAgoMax, hours_ago |-> HoursAgoMax, duration_tenths |-> DurationTenthsMax,
     caption |-> "New recipe alert #cooking #foodtok #recipe", hashtags |-> <<"food,recipe,cooking">>]

\* random.randint(20, 30) of lines 156, 165 and 303: the end points
DemoCountMin == 20
DemoCountMax == 30

\* random.randint(500_000, 20_000_000), lines 154, 163 and 301: the end points
DemoFollowersMin == 500000
DemoFollowersMax == 20000000

\* the random draws of one handler step: the invented follower count, the
\* number of demo records, and the draws of _generate_demo_videos
RouteRandoms ==
    { [followers |-> DemoFollowersMin, count |-> DemoCountMin, base_views |-> BaseViewsMin,
       draws |-> [i \in 1..DemoCountMin |-> LowDraw]],
      [followers |-> DemoFollowersMax, count |-> DemoCountMax, base_views |-> BaseViewsMax,
       draws |-> [i \in 1..DemoCountMax |-> IF i = 1 THEN HighDraw ELSE LowDraw]] }

\* ------------------------------------------------ _upsert_videos, repeated
MaxBatch == 2
MaxCalls == 2

UpsertRecords ==
    { _parse_api_video(ItemFull, <<"a">>),
      _parse_api_video(ItemLikeOnly, <<"a">>),
      _parse_api_video(ItemZero, <<"a">>),
      [username |-> <<"a">>, url |-> DomUrl(Href(FALSE, "7004")), video_id |-> "7004",
       caption |-> "", views |-> 9, likes |-> 0, comments |-> 0, shares |-> 0],
      [video_id |-> "", views |-> 4],
      DemoRecord(BaseViewsMin, DemoId(1), LowDraw) }

RECURSIVE SeqsUpTo(_, _)
SeqsUpTo(S, n) ==
    IF n = 0 THEN {<<>>}
    ELSE LET shorter == SeqsUpTo(S, n - 1)
         IN  shorter \cup {Append(q, x) : q \in shorter, x \in S}

Batches == SeqsUpTo(UpsertRecords, MaxBatch)

\* the ids of a batch are pairwise distinct
DistinctIds(b) == \A i, j \in DOMAIN b : i # j => b[i].video_id # b[j].video_id

StoredRow(creator_id, vid, views, caption) ==
    [creator_id |-> creator_id, video_id |-> vid, caption |-> caption, views |-> views,
     likes |-> 1, comments |-> 1, shares |-> 1, posted_at |-> NoneValue, duration |-> 0,
     hashtags |-> <<>>]

StartTables ==
    { {},
      {StoredRow(1, "7001", 2, "old")},
      {StoredRow(2, "7001", 7, "cap"), StoredRow(1, "7004", 0, "")} }

\* no request handler and no attempt runs
ScrapeIdle ==
    /\ pc = "idle"
    /\ browser = "none"
    /\ video_limit = 0
    /\ username = <<>>
    /\ api_videos = <<>>
    /\ profile = Unassigned
    /\ json_videos = <<>>
    /\ dom_videos = <<>>
    /\ videos = <<>>
    /\ scrolls = 0
    /\ rescrolls = 0
    /\ clicks = 0
    /\ responses = 0
    /\ caught = ""
    /\ failure = ""
    /\ result = Unassigned

UpsertInit ==
    /\ ScrapeIdle
    /\ CallsIdle
    /\ creators = {}
    /\ reqs = <<>>
    /\ started = 0
    /\ demo_seq = 0
    /\ ev = [handler |-> "none"]
    /\ video_rows \in StartTables
    /\ u_batch \in Batches
    /\ u_creator \in {1, 2}
    /\ u_results = <<>>

\* one more call of _upsert_videos(db, u_creator, u_batch)
UpsertCall ==
    /\ Len(u_results) < MaxCalls
    /\ LET r == _upsert_videos(video_rows, u_creator, u_batch)
       IN  /\ video_rows' = r.table
           /\ u_results' = Append(u_results, r)
    /\ UNCHANGED <<u_batch, u_creator>>
    /\ UNCHANGED <<scrapeVars, callVars>>
    /\ UNCHANGED <<creators, reqs, started, demo_seq, ev>>

UpsertNext == UpsertCall

SpecUpsert == UpsertInit /\ [][UpsertNext]_vars

UniqueIds(table) == \A r1, r2 \in table : r1.video_id = r2.video_id => r1 = r2

\* C7: for a batch whose ids are pairwise distinct, a second call of
\* _upsert_videos with the same batch leaves the table exactly as the first
\* call left it (same rows, same field values, no repeated video_id) and
\* returns the same count; no call fails.
C7_UpsertIdempotent ==
    DistinctIds(u_batch) =>
        \A i \in DOMAIN u_results :
            /\ u_results[i].exc = ""
            /\ u_results[i].table = u_results[1].table
            /\ u_results[i].count = u_results[1].count
            /\ UniqueIds(u_results[i].table)
            /\ video_rows = u_results[1].table

C7_Witness ==
    /\ Len(u_results) >= 2
    /\ u_results[2].count = 2
    /\ \E r \in video_rows : r.creator_id # u_creator /\ r.caption = "cap" /\ r.views = 0
    /\ \E r \in video_rows : r.creator_id = u_creator /\ r.video_id = "7002"

\* C6: whatever the batch, and also when it repeats an id, no call of
\* _upsert_videos fails with a uniqueness violation and the table never holds
\* two rows with the same video_id.
C6_NoDuplicateInsert ==
    \A i \in DOMAIN u_results :
        u_results[i].exc # "IntegrityError" /\ UniqueIds(u_results[i].table)

\* C11: the loop iteration of _upsert_videos for a record whose video_id
\* matches a stored row sets that row's views, likes, comments and shares to
\* the record's values and changes nothing else: no row is added, every other
\* row is as it was, and the row's caption, posted_at, duration, hashtags and
\* creator_id are as they were; after the call every stored row still has the
\* caption, posted_at, duration, hashtags and creator_id it had, and a row
\* whose id is not in the batch is unchanged.
C11_UpdateTouchesOnlyMetrics ==
    [][ u_results' # u_results =>
          /\ \A r \in video_rows : \A i \in DOMAIN u_batch :
                Get(u_batch[i], "video_id", "") = r.video_id =>
                    LET v == u_batch[i]
                        s == [table |-> video_rows, pending |-> <<>>, count |-> 0]
                        t == UpsertItem(s, u_creator, v)
                    IN  /\ t.pending = <<>>
                        /\ t.table \ video_rows =
                              {[r EXCEPT !.views = Get(v, "views", 0),
                                         !.likes = Get(v, "likes", 0),
                                         !.comments = Get(v, "comments", 0),
                                         !.shares = Get(v, "shares", 0)]} \ {r}
                        /\ video_rows \ t.table \subseteq {r}
                        /\ Cardinality(t.table) = Cardinality(video_rows)
          /\ \A r \in video_rows :
                /\ \E r2 \in video_rows' :
                      /\ r2.video_id = r.video_id
                      /\ r2.caption = r.caption
                      /\ r2.posted_at = r.posted_at
                      /\ r2.duration = r.duration
                      /\ r2.hashtags = r.hashtags
                      /\ r2.creator_id = r.creator_id
                /\ (\A i \in DOMAIN u_batch : Get(u_batch[i], "video_id", "") # r.video_id) =>
                      r \in video_rows'
      ]_vars

C11_Witness ==
    /\ Len(u_results) = 1
    /\ u_results[1].exc = ""
    /\ u_creator = 2
    /\ \E r \in video_rows :
          /\ r.video_id = "7001"
          /\ r.creator_id = 1
          /\ r.caption = "old"
          /\ r.views = 7
          /\ r.likes = 3
    /\ \E i \in DOMAIN u_batch : u_batch[i].video_id = "7001" /\ u_batch[i].caption = "cap"

\* ------------------------------------------------ the request handlers
MaxRequests == 3
MaxSlots == 2
Slots == 1..MaxSlots

\* USERNAME_RE = ^[\w.]{1,30}$ (routes.py line 18)
UsernameMaxLen == 30
Letters ==
    {"a", "b", "c", "d", "e", "f", "g", "h", "i", "j", "k", "l", "m", "n", "o", "p", "q",
     "r", "s", "t", "u", "v", "w", "x", "y", "z", "A", "B", "C", "D", "E", "F", "G", "H",
     "I", "J", "K", "L", "M", "N", "O", "P", "Q", "R", "S", "T", "U", "V", "W", "X", "Y", "Z"}
IsWordChar(c) == c \in Letters \/ IsDigit(c) \/ c = "_"
USERNAME_RE(t) ==
    /\ Len(t) >= 1
    /\ Len(t) <= UsernameMaxLen
    /\ \A i \in DOMAIN t : IsWordChar(t[i]) \/ t[i] = "."

\* the username query parameter of POST /creators, the path parameter of
\* POST /scrape/{username}, the creator_id of DELETE /creators/{creator_id}
AddUsernames == {<<" ", "@", "a">>, <<"a", "!">>}
ScrapeTargets == {<<"a">>}
DeleteIds == {1, 2}

RECURSIVE Listen(_, _, _)
\* api_videos after the listener has handled the responses in order
Listen(resps, acc, uname) ==
    IF resps = <<>> THEN acc
    ELSE Listen(Tail(resps), handle_response(Head(resps), acc, uname), uname)

\* what an attempt in which no page call raises returns, given the responses
\* the listener hears, the markup and the rendered DOM
AttemptResult(resps, html, dom, uname) ==
    LET api == Listen(resps, <<>>, uname)
        embedded == _extract_from_embedded_json(html, uname)
        from_dom == _extract_videos_from_dom(dom, uname, DefaultVideoLimit)
    IN  ReturnValue(embedded.profile,
                    MergeVideos(api, embedded.videos, from_dom, DefaultVideoLimit))

Response(kind, items) == [url_kind |-> kind, decodable |-> TRUE, data |-> [itemList |-> items]]
NoMarker == [marker |-> FALSE, text |-> Malformed]
Page(followerCount, items) == [marker |-> TRUE, text |-> ScopeWith(followerCount, items)]
EmptyDom == [raises |-> FALSE, post_items |-> <<>>, video_links |-> <<>>]
NegativeDom ==
    [raises |-> FALSE, post_items |-> <<>>,
     video_links |-> <<Elem(Href(FALSE, "7004"), NoneValue, [inner_text |-> <<"-", "5">>])>>]

Raised == [py_raised |-> TRUE]

\* what awaiting scrape_tiktok_user(username) delivers to a handler
ScrapeOutcomes(uname) ==
    { \* page.goto raised: the except clause, then profile {} and videos []
      ReturnValue(Unassigned, <<>>),
      \* the write of the debug dump failed: the call raises
      Raised,
      \* a served profile with followers and videos
      AttemptResult(<<Response("item_list", <<ItemFull, ItemLikeOnly>>)>>, Page(5000, <<>>), EmptyDom, uname),
      \* the same video list captured from two responses
      AttemptResult(<<Response("item_list", <<ItemFull>>), Response("item_list", <<ItemFull>>)>>,
                    NoMarker, EmptyDom, uname),
      \* placeholder records with all-zero counters
      AttemptResult(<<>>, Page(0, <<ItemZero, ItemNoId>>), EmptyDom, uname),
      \* videos, and a follower count at the floor
      AttemptResult(<<>>, Page(1000, <<ItemLikeOnly, ItemFull>>), EmptyDom, uname),
      \* an item without an id in a captured response
      AttemptResult(<<Response("comment_list", <<ItemNoId>>)>>, NoMarker, EmptyDom, uname),
      \* a view label that parse_count turns into a negative number
      AttemptResult(<<>>, NoMarker, NegativeDom, uname) }

\* the floor a scraped follower count has to exceed (lines 143 and 292) and
\* the one below which the fallback invents a count (lines 153 and 300)
FollowerFloor == 1000

\* ---- the SQLAlchemy session of one request, as far as a handler uses it:
\* cid is the identity of the Creator object, expired whether its attributes
\* have to be reloaded on the next access (every commit expires them).

\* flush of creator.follower_count = n: UPDATE creators ... WHERE id = cid;
\* no row matched raises StaleDataError
CommitFollowers(cs, cid, n) ==
    IF HasCreator(cs, cid)
    THEN [exc |-> "", creators |-> SetFollowers(cs, cid, n)]
    ELSE [exc |-> "StaleDataError", creators |-> cs]

\* reading creator.id (or any attribute): an expired object is reloaded, and
\* a row that is gone raises ObjectDeletedError
LoadCreator(cs, cid, expired) ==
    IF expired /\ ~HasCreator(cs, cid) THEN "ObjectDeletedError" ELSE ""

IdleReq ==
    [handler |-> "idle", at |-> "", uname |-> <<>>, cid |-> 0, expired |-> FALSE,
     follower_count |-> 0, scraped |-> <<>>, videos |-> <<>>, classified |-> "none",
     generated |-> <<>>, used_demo |-> FALSE, videos_scraped |-> 0]

NoEvent ==
    [handler |-> "none", step |-> "", cid |-> 0, scraped |-> <<>>, classified |-> "none",
     batch |-> <<>>, generated |-> <<>>, exc |-> "", response |-> "",
     followers_scraped |-> 0]

Event(r, step, exc, response) ==
    [handler |-> r.handler, step |-> step, cid |-> r.cid, scraped |-> r.scraped,
     classified |-> r.classified, batch |-> IF step = "upsert" THEN r.videos ELSE <<>>,
     generated |-> r.generated, exc |-> exc, response |-> response,
     followers_scraped |-> r.follower_count]

\* lines 148 and 297: v.get("views", 0) > 0 or v.get("likes", 0) > 0
IsReal(v) == Get(v, "views", 0) > 0 \/ Get(v, "likes", 0) > 0
real_videos(vs) == SelectSeq(vs, IsReal)

\* an entry that is None: v.get raises AttributeError
HasNoneEntry(vs) == \E i \in DOMAIN vs : IsNone(vs[i])

\* a fallback that appends the generated records to what was scraped
FallbackVideos_keep(scraped_videos, demo) == scraped_videos \o demo

\* lines 156 and 303: videos = _generate_demo_videos(...)
FallbackVideos(scraped_videos, demo) == demo

\* Every handler step yields [exc, req, creators, rows, demo_seq]: the
\* exception it raised ("" if none), the handler's locals and session, and
\* the committed tables.
StepResult(exc, r, cs, rows, seq) ==
    [exc |-> exc, req |-> r, creators |-> cs, rows |-> rows, demo_seq |-> seq]

\* lines 142-145 and 291-294: the follower count of the scraped profile
UpdateFollowers(r, prof, cs, rows, seq) ==
    LET follower_count == Get(prof, "followers", 0)
        r1 == [r EXCEPT !.follower_count = follower_count]
    IN  IF follower_count > FollowerFloor
        THEN LET c == CommitFollowers(cs, r.cid, follower_count)
             IN  StepResult(c.exc, [r1 EXCEPT !.expired = TRUE], c.creators, rows, seq)
        ELSE StepResult("", r1, cs, rows, seq)

\* lines 148-157 and 297-304: the authenticity test and the demo fallback
Classify(r, cs, rows, seq, rnd) ==
    IF HasNoneEntry(r.videos) THEN StepResult("AttributeError", r, cs, rows, seq)
    ELSE IF real_videos(r.videos) # <<>>
    THEN StepResult("", [r EXCEPT !.classified = "authentic"], cs, rows, seq)
    ELSE LET r1 == [r EXCEPT !.classified = "inauthentic"]
             invent == r.follower_count < FollowerFloor
             c == IF invent THEN CommitFollowers(cs, r.cid, rnd.followers)
                  ELSE [exc |-> "", creators |-> cs]
             demo == _generate_demo_videos(rnd.count, rnd, seq)
         IN  IF c.exc # ""
             THEN StepResult(c.exc, [r1 EXCEPT !.expired = TRUE], cs, rows, seq)
             ELSE StepResult("", [r1 EXCEPT !.expired = r.expired \/ invent,
                                            !.generated = demo,
                                            !.videos = FallbackVideos(r.videos, demo),
                                            !.used_demo = TRUE],
                             c.creators, rows, seq + rnd.count)

\* lines 159 and 306: _upsert_videos(db, creator.id, videos)
UpsertStep(r, cs, rows, seq) ==
    IF LoadCreator(cs, r.cid, r.expired) # ""
    THEN StepResult(LoadCreator(cs, r.cid, r.expired), r, cs, rows, seq)
    ELSE LET u == _upsert_videos(rows, r.cid, r.videos)
         IN  StepResult(u.exc, [r EXCEPT !.expired = TRUE, !.videos_scraped = u.count],
                        cs, u.table, seq)

\* lines 160-167: the except clause of add_creator, entered with the session
\* rolled back; an exception raised here leaves the handler
AddExcept(o, rnd) ==
    LET c == CommitFollowers(o.creators, o.req.cid, rnd.followers)
        demo == _generate_demo_videos(rnd.count, rnd, o.demo_seq)
        u == _upsert_videos(o.rows, o.req.cid, demo)
    IN  IF c.exc # "" THEN StepResult(c.exc, o.req, o.creators, o.rows, o.demo_seq)
        ELSE IF u.exc # ""
        THEN StepResult(u.exc, o.req, c.creators, o.rows, o.demo_seq + rnd.count)
        ELSE StepResult("", [o.req EXCEPT !.expired = TRUE, !.generated = demo,
                                          !.videos = demo, !.used_demo = TRUE,
                                          !.videos_scraped = u.count],
                        c.creators, u.table, o.demo_seq + rnd.count)

\* lines 169-175: the message of add_creator's response
AddMessage(r) ==
    IF r.used_demo THEN "demo"
    ELSE IF r.videos_scraped > 0 THEN "scraped"
    ELSE "no_videos"

\* ---- scheduling: add_creator and scrape_creator are coroutines of one event
\* loop and give it up only at `await scrape_tiktok_user`; delete_creator is
\* a plain function, which FastAPI runs in a worker thread.
Awaiting(r) == r.handler # "idle" /\ r.at = "scrape"
LoopFree == \A t \in Slots : reqs[t].handler = "idle" \/ reqs[t].at = "scrape"
HasFreeSlot == \E t \in Slots : reqs[t].handler = "idle"
FreeSlot == CHOOSE t \in Slots : reqs[t].handler = "idle" /\ \A q \in Slots : q < t => reqs[q].handler # "idle"

Init ==
    /\ ScrapeIdle
    /\ CallsIdle
    /\ creators = {}
    /\ video_rows = {}
    /\ reqs = [s \in Slots |-> IdleReq]
    /\ started = 0
    /\ demo_seq = 0
    /\ ev = NoEvent
    /\ u_batch = <<>>
    /\ u_creator = 0
    /\ u_results = <<>>

\* the variables a handler step writes, from the step's result
Commit(s, o, r, e) ==
    /\ reqs' = [reqs EXCEPT ![s] = r]
    /\ creators' = o.creators
    /\ video_rows' = o.rows
    /\ demo_seq' = o.demo_seq
    /\ ev' = e
    /\ UNCHANGED started
    /\ UNCHANGED <<scrapeVars, upsertVars, callVars>>

\* a step of add_creator's try block: on an exception the except clause runs
AddStep(s, o, step, next_at, rnd) ==
    IF o.exc = ""
    THEN Commit(s, o, [o.req EXCEPT !.at = next_at], Event(o.req, step, "", ""))
    ELSE LET x == AddExcept(o, rnd)
         IN  IF x.exc = ""
             THEN Commit(s, x, [x.req EXCEPT !.at = "respond"], Event(x.req, "upsert", o.exc, ""))
             ELSE Commit(s, x, IdleReq, Event(x.req, "except", x.exc, "500"))

\* a step of scrape_creator: an exception leaves the handler
ScrapeStep(s, o, step, next_at, response) ==
    IF o.exc = ""
    THEN Commit(s, o, IF next_at = "" THEN IdleReq ELSE [o.req EXCEPT !.at = next_at],
                Event(o.req, step, "", response))
    ELSE Commit(s, o, IdleReq, Event(o.req, step, o.exc, "500"))

\* add_creator, lines 114-130: normalise and validate the username, refuse a
\* tracked one, create the creator (commit, refresh), then await the scrape
add_creator_start ==
    /\ started < MaxRequests
    /\ LoopFree
    /\ HasFreeSlot
    /\ \E raw \in AddUsernames :
          LET uname == LStripAt(Strip(raw))
              r == [IdleReq EXCEPT !.handler = "add_creator", !.uname = uname]
          IN  IF uname = <<>> \/ ~USERNAME_RE(uname)
              THEN /\ ev' = Event(r, "start", "HTTPException", "400")
                   /\ UNCHANGED <<creators, reqs>>
              ELSE IF HasUsername(creators, uname)
              THEN /\ ev' = Event(r, "start", "HTTPException", "409")
                   /\ UNCHANGED <<creators, reqs>>
              ELSE LET creator == NewCreator(creators, uname)
                       r1 == [r EXCEPT !.at = "scrape", !.cid = creator.id]
                   IN  /\ creators' = creators \cup {creator}
                       /\ reqs' = [reqs EXCEPT ![FreeSlot] = r1]
                       /\ ev' = Event(r1, "start", "", "")
    /\ started' = started + 1
    /\ UNCHANGED <<video_rows, demo_seq>>
    /\ UNCHANGED <<scrapeVars, upsertVars, callVars>>

\* add_creator, lines 137-145: the awaited scrape is over
add_creator_scraped(s) ==
    /\ reqs[s].handler = "add_creator"
    /\ Awaiting(reqs[s])
    /\ LoopFree
    /\ \E result_ \in ScrapeOutcomes(reqs[s].uname), rnd \in RouteRandoms :
          LET r == reqs[s]
              o == IF result_ = Raised
                   THEN StepResult("Exception", r, creators, video_rows, demo_seq)
                   ELSE UpdateFollowers([r EXCEPT !.scraped = Get(result_, "videos", <<>>),
                                                  !.videos = Get(result_, "videos", <<>>)],
                                        Get(result_, "profile", EmptyDict),
                                        creators, video_rows, demo_seq)
          IN  AddStep(s, o, "scraped", "classify", rnd)

\* add_creator, lines 148-157
add_creator_classify(s) ==
    /\ reqs[s].handler = "add_creator"
    /\ reqs[s].at = "classify"
    /\ \E rnd \in RouteRandoms :
          AddStep(s, Classify(reqs[s], creators, video_rows, demo_seq, rnd),
                  "classify", "upsert", rnd)

\* add_creator, line 159
add_creator_upsert(s) ==
    /\ reqs[s].handler = "add_creator"
    /\ reqs[s].at = "upsert"
    /\ \E rnd \in RouteRandoms :
          AddStep(s, UpsertStep(reqs[s], creators, video_rows, demo_seq),
                  "upsert", "respond", rnd)

\* add_creator, lines 169-182: the response reads creator.id, creator.username
\* and creator.follower_count
add_creator_respond(s) ==
    /\ reqs[s].handler = "add_creator"
    /\ reqs[s].at = "respond"
    /\ LET r == reqs[s]
           exc == LoadCreator(creators, r.cid, r.expired)
       IN  ev' = Event(r, "respond", exc, IF exc = "" THEN AddMessage(r) ELSE "500")
    /\ reqs' = [reqs EXCEPT ![s] = IdleReq]
    /\ UNCHANGED <<creators, video_rows, started, demo_seq>>
    /\ UNCHANGED <<scrapeVars, upsertVars, callVars>>

\* scrape_creator, lines 270-274: the handler awaits the scrape at once
scrape_creator_start ==
    /\ started < MaxRequests
    /\ LoopFree
    /\ HasFreeSlot
    /\ \E uname \in ScrapeTargets :
          LET r == [IdleReq EXCEPT !.handler = "scrape_creator", !.uname = uname, !.at = "scrape"]
          IN  /\ reqs' = [reqs EXCEPT ![FreeSlot] = r]
              /\ ev' = Event(r, "start", "", "")
    /\ started' = started + 1
    /\ UNCHANGED <<creators, video_rows, demo_seq>>
    /\ UNCHANGED <<scrapeVars, upsertVars, callVars>>

\* scrape_creator, lines 274-294: the scrape is over (an exception stands for
\* an empty result), the creator is looked up or created, the follower count
\* updated
scrape_creator_scraped(s) ==
    /\ reqs[s].handler = "scrape_creator"
    /\ Awaiting(reqs[s])
    /\ LoopFree
    /\ \E result_ \in ScrapeOutcomes(LStripAt(reqs[s].uname)) :
          LET r == reqs[s]
              prof == IF result_ = Raised THEN EmptyDict ELSE Get(result_, "profile", EmptyDict)
              vs == IF result_ = Raised THEN <<>> ELSE Get(result_, "videos", <<>>)
              known == HasUsername(creators, r.uname)
              creator == IF known THEN CreatorByUsername(creators, r.uname)
                         ELSE NewCreator(creators, r.uname)
              r1 == [r EXCEPT !.cid = creator.id, !.scraped = vs, !.videos = vs]
          IN  ScrapeStep(s, UpdateFollowers(r1, prof, creators \cup {creator}, video_rows, demo_seq),
                         "scraped", "classify", "")

\* scrape_creator, lines 297-304
scrape_creator_classify(s) ==
    /\ reqs[s].handler = "scrape_creator"
    /\ reqs[s].at = "classify"
    /\ \E rnd \in RouteRandoms :
          ScrapeStep(s, Classify(reqs[s], creators, video_rows, demo_seq, rnd),
                     "classify", "upsert", "")

\* scrape_creator, lines 306-313
scrape_creator_upsert(s) ==
    /\ reqs[s].handler = "scrape_creator"
    /\ reqs[s].at = "upsert"
    /\ ScrapeStep(s, UpsertStep(reqs[s], creators, video_rows, demo_seq), "upsert", "",
                  IF reqs[s].used_demo THEN "demo" ELSE "scraped")

\* delete_creator, lines 223-233: 404 for an unknown id, else the creator's
\* videos and the creator are deleted in one transaction
delete_creator ==
    /\ started < MaxRequests
    /\ \E creator_id \in DeleteIds :
          LET r == [IdleReq EXCEPT !.handler = "delete_creator", !.cid = creator_id]
          IN  IF ~HasCreator(creators, creator_id)
              THEN /\ ev' = Event(r, "delete", "HTTPException", "404")
                   /\ UNCHANGED <<creators, video_rows>>
              ELSE /\ video_rows' = {v \in video_rows : v.creator_id # creator_id}
                   /\ creators' = {c \in creators : c.id # creator_id}
                   /\ ev' = Event(r, "delete", "", "ok")
    /\ started' = started + 1
    /\ UNCHANGED <<reqs, demo_seq>>
    /\ UNCHANGED <<scrapeVars, upsertVars, callVars>>

Next ==
    \/ add_creator_start
    \/ \E s \in Slots : add_creator_scraped(s)
    \/ \E s \in Slots : add_creator_classify(s)
    \/ \E s \in Slots : add_creator_upsert(s)
    \/ \E s \in Slots : add_creator_respond(s)
    \/ scrape_creator_start
    \/ \E s \in Slots : scrape_creator_scraped(s)
    \/ \E s \in Slots : scrape_creator_classify(s)
    \/ \E s \in Slots : scrape_creator_upsert(s)
    \/ delete_creator

Spec == Init /\ [][Next]_vars

\* ------------------------------ calls of the functions that read no state
\* parse_count(text)
ParseTexts ==
    {ip \o fp \o sf :
        ip \in {<<"1">>, <<"2">>, <<"4">>, <<"4", "5">>, <<"5", "0", "0">>, <<"1", "2", "3", "4">>},
        fp \in {<<>>, <<".", "1">>, <<".", "2">>, <<".", "3">>, <<".", "0", "0", "1">>},
        sf \in {<<>>, <<"K">>, <<"M">>, <<"k">>}}
    \cup { <<>>,
           <<"g", "a", "r", "b", "a", "g", "e">>,
           <<"K">>,
           <<"-", "5">>,
           <<"+", "5">>,
           <<"i", "n", "f">>,
           <<"i", "n", "f", "K">>,
           <<"n", "a", "n">>,
           <<"n", "a", "n", "K">>,
           <<" ", "1", ",", "2", "3", "4", " ">>,
           <<"1", "2", " ", "k">>,
           <<"1", " ", "2", "K">>,
           <<"1", ".">>,
           <<"1", ".", "2", ".", "3">>,
           <<"1", ".", "1", "B">>,
           <<"2", "B">> }

\* _parse_api_video(item, username): items with and without an id, a stats
\* object, diggCount and likeCount
WithKey(d, key, values) == {d} \cup {[k \in DOMAIN d \cup {key} |-> IF k = key THEN x ELSE d[k]] : x \in values}
MapperItems ==
    LET stats == UNION {WithKey(s, "likeCount", {0, 1, 9}) :
                           s \in WithKey([playCount |-> 7], "diggCount", {0, 3})}
    IN  UNION {WithKey(i, "stats", stats \cup {NotADict}) :
                  i \in UNION {WithKey(j, "video_id", {"7002"}) :
                                  j \in WithKey([desc |-> "cap"], "id", {"", "7001"})}}

\* _generate_demo_videos(count): the draws of random.randint, random.choice
\* and random.uniform, at the end points of their ranges
GeneratorArgs ==
    LET draws == {[LowDraw EXCEPT !.mult10 = m, !.jitter_pct = j, !.like_permille = l,
                                  !.comment_permille = c, !.share_permille = s] :
                     m \in {1, 100}, j \in {JitterPctMin, JitterPctMax},
                     l \in {LikePermilleMin, LikePermilleMax},
                     c \in {CommentPermilleMin, CommentPermilleMax},
                     s \in {SharePermilleMin, SharePermilleMax}}
    IN  {[count |-> n, base_views |-> b, draws |-> <<d, HighDraw>>] :
            n \in {0, 1, 2}, b \in {BaseViewsMin, BaseViewsMax}, d \in draws}

\* _extract_videos_from_dom(page, username, limit): the candidate elements a
\* selector query returns: the link on the element or on its child <a>, a
\* repeated id, a path without digits, no link at all, a views label that
\* parse_count rejects with OverflowError
DomElems ==
    { Elem(Href(FALSE, "7001"), NoneValue, [inner_text |-> <<"9">>]),
      Elem(NoneValue, [href |-> Href(TRUE, "7001")], NoneValue),
      Elem(Href(FALSE, "7002"), NoneValue, [inner_text |-> <<"1", ".", "2", "K">>]),
      Elem(Href(FALSE, ""), NoneValue, NoneValue),
      Elem(NoneValue, NoneValue, NoneValue),
      Elem(Href(FALSE, "7003"), NoneValue, [inner_text |-> <<"i", "n", "f">>]) }

\* the rendered pages and limits the extractor is called with: the candidates
\* under the first selector, or (when it finds none) under the second
DomArgs ==
    {[dom |-> d, limit |-> l] :
        d \in {[raises |-> r, post_items |-> q, video_links |-> <<>>] :
                  r \in BOOLEAN, q \in SeqsUpTo(DomElems, MaxCandidates)}
              \cup {[raises |-> FALSE, post_items |-> <<>>, video_links |-> q] :
                        q \in SeqsUpTo(DomElems, MaxCandidates)},
        l \in 0..MaxLimit}

Calls ==
    {[fn |-> "parse_count", arg |-> t] : t \in ParseTexts}
    \cup {[fn |-> "_extract_videos_from_dom", arg |-> a] : a \in DomArgs}
    \cup {[fn |-> "_parse_api_video", arg |-> i] : i \in MapperItems}
    \cup {[fn |-> "_generate_demo_videos", arg |-> a] : a \in GeneratorArgs}

CallsInit ==
    /\ ScrapeIdle
    /\ RoutesIdle
    /\ call \in Calls
    /\ ret = Unassigned

CallParseCount ==
    /\ call.fn = "parse_count"
    /\ ret = Unassigned
    /\ ret' = parse_count(call.arg)
    /\ UNCHANGED <<call, scrapeVars, routeVars, upsertVars>>

CallParseApiVideo ==
    /\ call.fn = "_parse_api_video"
    /\ ret = Unassigned
    /\ ret' = [exc |-> "", value |-> _parse_api_video(call.arg, <<"a">>)]
    /\ UNCHANGED <<call, scrapeVars, routeVars, upsertVars>>

CallGenerateDemoVideos ==
    /\ call.fn = "_generate_demo_videos"
    /\ ret = Unassigned
    /\ ret' = [exc |-> "", value |-> _generate_demo_videos(call.arg.count, call.arg, 0)]
    /\ UNCHANGED <<call, scrapeVars, routeVars, upsertVars>>

CallExtractVideosFromDom ==
    /\ call.fn = "_extract_videos_from_dom"
    /\ ret = Unassigned
    /\ ret' = [exc |-> "",
               value |-> _extract_videos_from_dom(call.arg.dom, <<"a">>, call.arg.limit)]
    /\ UNCHANGED <<call, scrapeVars, routeVars, upsertVars>>

CallsNext ==
    \/ CallExtractVideosFromDom
    \/ CallParseCount
    \/ CallParseApiVideo
    \/ CallGenerateDemoVideos

SpecCalls == CallsInit /\ [][CallsNext]_vars

\* a call of the generator returns: the function is a loop of count iterations
SpecCallsFair == SpecCalls /\ WF_vars(CallGenerateDemoVideos)

\* ------------------------------------------------ properties of the handlers
IdsOf(vs) == {Get(vs[i], "video_id", "") : i \in DOMAIN vs}

\* C4: the authenticity test classifies a list as authentic if and only if
\* some record of it has a non-zero view count or a non-zero like count.
C4_AuthenticIffNonZero ==
    ev.classified # "none" =>
        (ev.classified = "authentic" <=>
            \E i \in DOMAIN ev.scraped :
                Get(ev.scraped[i], "views", 0) # 0 \/ Get(ev.scraped[i], "likes", 0) # 0)

\* C5: in add_creator and scrape_creator, when the scraped set was classified
\* inauthentic, the batch handed to _upsert_videos is the batch the generator
\* has just produced and nothing else: it is non-empty, it holds no scraped
\* record, the rows the persist step writes all carry generated ids and none
\* carries a scraped id, and every response the handler returns afterwards
\* reports demo data.
C5_FallbackReplaces ==
    [][ /\ (ev'.step = "upsert" /\ ev'.classified = "inauthentic") =>
              /\ ev'.batch = ev'.generated
              /\ Len(ev'.batch) > 0
              /\ \A i \in DOMAIN ev'.batch : \A j \in DOMAIN ev'.scraped :
                    ev'.batch[i] # ev'.scraped[j]
              /\ \A v \in video_rows' \ video_rows :
                    v.video_id \in IdsOf(ev'.generated) /\ v.video_id \notin IdsOf(ev'.scraped)
        /\ (ev'.classified = "inauthentic" /\ ev'.response \notin {"", "500"}) =>
              ev'.response = "demo"
        /\ (ev'.classified = "inauthentic" /\ ev'.step \notin {"upsert", "respond"}) =>
              video_rows' = video_rows
      ]_vars

C5_Witness ==
    /\ ev.handler = "scrape_creator"
    /\ ev.step = "upsert"
    /\ ev.classified = "inauthentic"
    /\ ev.scraped # <<>>
    /\ ev.response = "demo"
    /\ \A i \in DOMAIN ev.generated : \E v \in video_rows : v.video_id = ev.generated[i].video_id
    /\ \A v \in video_rows : v.video_id \notin IdsOf(ev.scraped)

\* C8: a step changes the stored follower count of a creator only when the
\* follower count the scrape delivered exceeds 1000, and then to that count.
C8_FollowersOnlyAboveFloor ==
    [][ \A c \in creators : \A d \in creators' :
            (d.id = c.id /\ d.username = c.username /\ d.follower_count # c.follower_count) =>
                (ev'.followers_scraped > FollowerFloor /\ d.follower_count = ev'.followers_scraped)
      ]_vars

\* C10: every row of table videos refers, by creator_id, to a row of table
\* creators, under every interleaving of add_creator, scrape_creator and
\* delete_creator.
C10_VideosHaveCreator == \A v \in video_rows : HasCreator(creators, v.creator_id)

\* ------------------------------------------------ properties of one attempt
Ended == pc \in {"returned", "raised"}

\* C1: in an attempt no step of which raised, the merge assigns to videos
\* the first video_limit entries of the API-listener list if it is non-empty,
\* else of the embedded-JSON list if it is non-empty, else of the DOM list
\* (one source only, never topped up from a lower one), and that list is
\* what is returned.
C1_MergePriority ==
    [][/\ (pc = "merge" /\ pc' # pc) =>
             /\ api_videos # <<>> => videos' = Take(api_videos, video_limit)
             /\ (api_videos = <<>> /\ json_videos # <<>>) =>
                    videos' = Take(json_videos, video_limit)
             /\ (api_videos = <<>> /\ json_videos = <<>>) =>
                    videos' = Take(dom_videos, video_limit)
       /\ pc' = "returned" => result'.videos = videos]_vars

C1_Witness ==
    /\ pc = "returned"
    /\ caught = ""
    /\ video_limit > 0
    /\ Len(api_videos) > video_limit
    /\ json_videos # <<>>
    /\ dom_videos # <<>>
    /\ result.videos = Take(api_videos, video_limit)

\* C2: an attempt in which navigation or a later page step raised ends by
\* returning a dict with exactly the keys profile and videos (it raises only
\* if the write of the debug dump fails), and when it was the navigation that
\* raised the returned value is {profile: {}, videos: []}.
C2_NoRaiseOnPlatformFailure ==
    (Ended /\ caught # "") =>
        /\ pc = "raised" => failure = "dump"
        /\ pc = "returned" => DOMAIN result = {"profile", "videos"}
        /\ (pc = "returned" /\ caught = "goto") =>
               result = [profile |-> EmptyDict, videos |-> <<>>]
        /\ (pc = "returned" /\ profile = Unassigned) => result.profile = EmptyDict

C2_Witness ==
    /\ pc = "returned"
    /\ caught = "goto"
    /\ api_videos # <<>>
    /\ result = [profile |-> EmptyDict, videos |-> <<>>]

C9_NoIdlessRecord ==
    pc = "returned" =>
        \A i \in DOMAIN result.videos :
            /\ ~IsNone(result.videos[i])
            /\ result.videos[i].video_id # ""

\* C12: an attempt whose username is empty or does not match the username
\* pattern launches no browser (and so navigates no page).
C12_InvalidUsernameNoBrowser ==
    (username = <<>> \/ ~USERNAME_RE(username)) => browser = "none"

\* the returned videos are the merge of the three sources as they stood at the
\* merge: the listener's list can only have grown since (a response may still
\* arrive while the browser is being closed)
MergedResult ==
    \E n \in 0..Len(api_videos) :
        result.videos = MergeVideos(SubSeq(api_videos, 1, n), json_videos, dom_videos, video_limit)

\* C13: a failed write of a debug artifact leaves the attempt as it would
\* have been: the write of the JSON dump never makes the attempt raise, and
\* an attempt whose screenshot step failed still returns, after all the scroll
\* cycles, the merge of the three sources.
C13_ArtifactFailureHarmless ==
    /\ failure # "dump"
    /\ (Ended /\ caught = "screenshot") =>
          /\ pc = "returned"
          /\ scrolls = ScrollCount(video_limit)
          /\ MergedResult

\* ------------------------------------------------ properties of the functions
Returned(fn) == call.fn = fn /\ ret # Unassigned

\* C14: parse_count returns a non-negative integer for every text and never
\* raises.
C14_ParseCountTotal ==
    Returned("parse_count") => (ret.exc = "" /\ ret.value >= 0)

RECURSIVE C15_RemoveSpaces(_)
C15_RemoveSpaces(t) ==
    IF t = <<>> THEN <<>>
    ELSE IF IsSpace(Head(t)) THEN C15_RemoveSpaces(Tail(t))
         ELSE <<Head(t)>> \o C15_RemoveSpaces(Tail(t))

\* a decimal numeral: digits, or digits "." digits
C15_IsNumeral(t) ==
    LET d == DotAt(t)
    IN  IF d = 0 THEN t # <<>> /\ AllDigits(t)
        ELSE /\ d > 1 /\ d < Len(t)
             /\ AllDigits(SubSeq(t, 1, d - 1))
             /\ AllDigits(SubSeq(t, d + 1, Len(t)))

\* the numeral num/den times multiplier, truncated (den divides a multiplier
\* of a suffix)
C15_Scaled(num, den, multiplier) ==
    IF multiplier % den = 0 THEN num * (multiplier \div den) ELSE (num * multiplier) \div den

\* C15: for a text that, with whitespace and commas removed and upper-cased,
\* is a decimal numeral d with at most one suffix K, M or B, parse_count
\* returns d times 1000, 1000000 or 1000000000 (1 without suffix) truncated
\* to an integer; "1.2M" gives 1200000, "500K" 500000, "45.3K" 45300, "1234"
\* 1234, and "" and "garbage" give 0.
C15_ParseCountValue ==
    Returned("parse_count") =>
        LET t == C15_RemoveSpaces(RemoveCommas(Upper(call.arg)))
            suffixed == t # <<>> /\ t[Len(t)] \in {"K", "M", "B"}
            body == IF suffixed THEN SubSeq(t, 1, Len(t) - 1) ELSE t
            multiplier == IF suffixed THEN Multiplier(t[Len(t)]) ELSE 1
            d == FloatBody(body)
        IN  /\ C15_IsNumeral(body) =>
                  ret = [exc |-> "", value |-> C15_Scaled(d.num, d.den, multiplier)]
            /\ call.arg \in {<<>>, <<"g", "a", "r", "b", "a", "g", "e">>} =>
                  ret = [exc |-> "", value |-> 0]

\* C16: for an item with a usable id and a stats object, the record the
\* mapper returns has likes equal to diggCount when the stats hold diggCount,
\* else to likeCount when they hold likeCount, else 0.
C16_LikesFromDiggCount ==
    (Returned("_parse_api_video") /\ IsDict(Get(call.arg, "stats", EmptyDict))
        /\ Get(call.arg, "id", Get(call.arg, "video_id", "")) # "") =>
        LET stats == Get(call.arg, "stats", EmptyDict)
        IN  /\ ~IsNone(ret.value)
            /\ "diggCount" \in DOMAIN stats => ret.value.likes = stats.diggCount
            /\ ("diggCount" \notin DOMAIN stats /\ "likeCount" \in DOMAIN stats) =>
                  ret.value.likes = stats.likeCount
            /\ ("diggCount" \notin DOMAIN stats /\ "likeCount" \notin DOMAIN stats) =>
                  ret.value.likes = 0

C16_Witness ==
    /\ Returned("_parse_api_video")
    /\ Get(call.arg, "id", "") = "7001"
    /\ IsDict(Get(call.arg, "stats", NotADict))
    /\ DOMAIN call.arg.stats = {"playCount", "diggCount"}
    /\ call.arg.stats.diggCount = 3
    /\ ret.value.likes = 3

\* C17 as amended: in every record the generator returns, the comment count
\* does not exceed the like count.
C17_CommentsNeverExceedLikes ==
    Returned("_generate_demo_videos") =>
        \A i \in DOMAIN ret.value : ret.value[i].comments <= ret.value[i].likes

C17_Witness ==
    /\ Returned("_generate_demo_videos")
    /\ Len(ret.value) = 2
    /\ call.arg.draws[1].like_permille = LikePermilleMin
    /\ call.arg.draws[1].comment_permille = CommentPermilleMax
    /\ ret.value[1].comments > 0
    /\ ret.value[1].comments < ret.value[1].likes
    /\ ret.value[1].shares < ret.value[1].comments
    /\ ret.value[2].shares > ret.value[2].comments

\* C17 as stated: the generator produces a record whose comment count
\* exceeds its like count.
C17_CommentsCanExceedLikes ==
    call.fn = "_generate_demo_videos" =>
        <>(Returned("_generate_demo_videos")
            /\ \E i \in DOMAIN ret.value : ret.value[i].comments > ret.value[i].likes)

\* the statements of an attempt in the order of the source text
C18_Order ==
    <<"with_enter", "launch", "new_context", "new_page", "page_on", "goto", "settle",
      "content", "screenshot", "scroll", "query_refresh", "click_refresh", "rescroll",
      "extract_dom", "merge", "finally", "with_exit", "dump", "returned", "raised">>
C18_Pos(step) == CHOOSE i \in DOMAIN C18_Order : C18_Order[i] = step

\* the embedded-state extractor is invoked (line 99), the DOM extractor is
\* invoked (line 123)
C18_EmbeddedRuns == pc = "content" /\ (pc' = "screenshot" \/ caught' = "extract_json")
C18_DomRuns == pc = "extract_dom" /\ pc' = "merge"

\* C18 as stated: neither extractor is invoked before all scrolling is over:
\* no scroll cycle, refresh click or re-scroll cycle happens once the
\* embedded-state extractor or the DOM extractor has been invoked.
C18_ExtractAfterScrolling ==
    [][ (scrolls' > scrolls \/ clicks' > clicks \/ rescrolls' > rescrolls) =>
            (profile = Unassigned /\ C18_Pos(pc) < C18_Pos("extract_dom")) ]_vars

\* C18 as amended: the steps of an attempt occur in the order navigate,
\* settle, embedded-state extraction, screenshot, scroll, refresh query,
\* optional click followed by the re-scroll, DOM extraction, merge, done, and
\* any step of the try block may instead pass to the error handling; the
\* embedded-state extractor runs before any scroll cycle, the DOM extractor
\* after all of them (and after the whole re-scroll when the button was
\* clicked, which is the only case with a re-scroll).
C18_StepOrder ==
    [][ /\ C18_Pos(pc') >= C18_Pos(pc)
        /\ (pc \in TrySteps \cup {"settle", "merge"} /\ pc' # pc) =>
               \/ C18_Pos(pc') = C18_Pos(pc) + 1
               \/ pc' = "finally"
               \/ pc = "query_refresh" /\ pc' = "extract_dom"
        /\ C18_EmbeddedRuns => (scrolls = 0 /\ clicks = 0 /\ rescrolls = 0)
        /\ C18_DomRuns =>
               /\ scrolls = ScrollCount(video_limit)
               /\ rescrolls = IF clicks = 1 THEN RescrollCount ELSE 0
               /\ profile # Unassigned
      ]_vars

C18_Witness ==
    /\ pc = "returned"
    /\ caught = ""
    /\ scrolls > 0
    /\ clicks = 1
    /\ rescrolls = RescrollCount
    /\ json_videos # <<>>
    /\ dom_videos # <<>>

\* C19: when navigation succeeds, a decode failure in one extraction source
\* (malformed embedded JSON, embedded JSON of an unexpected shape, an API body
\* that cannot be decoded) silences that source only: the attempt still
\* runs every scroll cycle and returns what the sources hold, chosen by the
\* merge priority.  The one decode failure that leaves a trace is the payload
\* of unexpected shape (caught = "extract_json"); the others happen in
\* attempts with caught = "".
C19_DecodeFailureContained ==
    (pc = "returned" /\ caught \in {"", "extract_json"}) =>
        /\ scrolls = ScrollCount(video_limit)
        /\ MergedResult

\* C20 as stated: the refresh button is clicked at most once, and the
\* re-scroll that follows the click has strictly fewer cycles than the first
\* scroll loop, whatever the requested limit.
C20_RescrollShorter ==
    /\ clicks <= 1
    /\ (pc = "extract_dom" /\ clicks = 1) => rescrolls < scrolls

\* C20 as amended: the button is clicked at most once, only when the query
\* that follows the first scroll loop found it; the first loop runs
\* min(10, limit div 3) cycles and the re-scroll, which runs only after the
\* click, 5 cycles whatever the limit, so the re-scroll is the shorter of the
\* two exactly when the limit is at least 18.
C20_RescrollFixed ==
    [][ /\ clicks' <= 1
        /\ clicks' > clicks =>
              /\ pc = "click_refresh"
              /\ scrolls = Min(10, video_limit \div 3)
              /\ rescrolls = 0
        /\ rescrolls' > rescrolls => clicks = 1
        /\ (pc = "extract_dom" /\ pc' # pc) =>
              /\ scrolls = Min(10, video_limit \div 3)
              /\ rescrolls = IF clicks = 1 THEN 5 ELSE 0
              /\ clicks = 1 => (rescrolls < scrolls <=> video_limit >= 18)
      ]_vars

C20_Witness ==
    /\ pc = "returned"
    /\ caught = ""
    /\ video_limit = 18
    /\ clicks = 1
    /\ scrolls = 6
    /\ rescrolls = 5

\* the candidates of a page: the first selector's, else the second's
C21_Candidates(dom) == IF dom.post_items # <<>> THEN dom.post_items ELSE dom.video_links

\* the numeric id a candidate links to, "" when it has no link or no id
C21_IdOf(item) ==
    IF ~IsNone(item.href) THEN item.href.vid
    ELSE IF ~IsNone(item.child) THEN item.child.href.vid
    ELSE ""

\* C21: for every page and limit L >= 0 the DOM extractor returns at most L
\* records, their video ids are pairwise distinct and never empty, and each
\* is the id linked by one of the first L candidates; the records come in
\* the order of those candidates.
C21_DomBoundedDistinct ==
    Returned("_extract_videos_from_dom") =>
        LET v == ret.value
            items == C21_Candidates(call.arg.dom)
            first == 1..Min(call.arg.limit, Len(items))
        IN  /\ ret.exc = ""
            /\ Len(v) <= call.arg.limit
            /\ \A i, j \in DOMAIN v : i # j => v[i].video_id # v[j].video_id
            /\ \A i \in DOMAIN v :
                  /\ v[i].video_id # ""
                  /\ \E k \in first : C21_IdOf(items[k]) = v[i].video_id
            /\ \A i, j \in DOMAIN v : i < j =>
                  \E k, l \in first : /\ k < l
                                       /\ C21_IdOf(items[k]) = v[i].video_id
                                       /\ C21_IdOf(items[l]) = v[j].video_id

\* a page of three candidates, the second repeating the first one's id, cut
\* to its first two: one record
C21_Witness ==
    /\ Returned("_extract_videos_from_dom")
    /\ call.arg.limit = 2
    /\ Len(call.arg.dom.post_items) = 3
    /\ C21_IdOf(call.arg.dom.post_items[1]) = "7001"
    /\ C21_IdOf(call.arg.dom.post_items[2]) = "7001"
    /\ C21_IdOf(call.arg.dom.post_items[3]) = "7002"
    /\ Len(ret.value) = 1
    /\ ret.value[1].video_id = "7001"

\* C22: every record of a generated batch has at least 25000 views (500000 x
\* 0.1 x 0.5), so every record passes the authenticity test and the batch
\* would be classified authentic; the persist step of a fallback is handed
\* that batch, every row it writes has at least 25000 views, and unless the
\* handler ends with an error every generated record is stored with its views.
C22_DemoViewsPositive ==
    [][ (ev'.step = "upsert" /\ ev'.generated # <<>>) =>
            /\ \A i \in DOMAIN ev'.generated : ev'.generated[i].views >= 25000
            /\ real_videos(ev'.generated) = ev'.generated
            /\ ev'.batch = ev'.generated
            /\ \A v \in video_rows' \ video_rows : v.views >= 25000
            /\ ev'.response # "500" =>
                  \A i \in DOMAIN ev'.generated :
                      \E v \in video_rows' : /\ v.video_id = ev'.generated[i].video_id
                                             /\ v.views = ev'.generated[i].views
      ]_vars

\* a fallback has stored a record drawn at the lowest end of every range
C22_Witness ==
    /\ ev.step = "upsert"
    /\ ev.classified = "inauthentic"
    /\ ev.response # "500"
    /\ ev.generated # <<>>
    /\ \E v \in video_rows : /\ v.video_id = ev.generated[1].video_id
                             /\ v.views = 25000

====
